---- MODULE Spec2Model ----
(***************************************************************************)
(* A model of the data-structure and algorithm examples of the pysheeet    *)
(* sources: IndexedHeap and top_k (src/basic/heap.py), LRUCache            *)
(* (src/basic/dict.py), the expression evaluator and run_scheduler         *)
(* (src/basic/generator.py), Stack and binary_search (src/basic/list.py,   *)
(* src/basic/typing_.py).                                                  *)
(*                                                                         *)
(* Every example is independent of the others, so each has its own         *)
(* specification (Init, Next) over the shared variables; the variables of  *)
(* the other examples stay at their initial values.                        *)
(*                                                                         *)
(* Python sequences are 0-indexed, TLA+ sequences 1-indexed: At(s, i) is   *)
(* the Python s[i].                                                        *)
(***************************************************************************)
EXTENDS Integers, Sequences, FiniteSets, TLC

VARIABLES
    op,            \* the last call made: a record with its name and arguments
    ret,           \* what that call returned, or the exception it raised
    heap,          \* IndexedHeap.heap: the list heapq keeps heap-ordered
    entry_finder,  \* IndexedHeap.entry_finder: item -> its entry (by identity)
    live,          \* history: item -> priority, by the meaning of the calls
    maxsize,       \* LRUCache._maxsize
    cache,         \* LRUCache._cache: the OrderedDict, oldest entry first
    clock,         \* history: number of LRUCache calls made
    lastUse,       \* history: key -> clock of the last put or hitting get
    lastPut,       \* history: key -> value last put, for keys not evicted since
    operands,      \* history: the numbers the text given to evaluate was written from
    operators,     \* history: the operators written between them
    tasks,         \* run_scheduler's argument: task i is a generator of tasks[i] values
    q,             \* run_scheduler's deque, of indices into tasks
    sent,          \* generator state: sent[i] values of task i were yielded so far
    results,       \* run_scheduler's results list
    pc,            \* where run_scheduler is: "idle", "loop" or "returned"
    items,         \* Stack._items of list.py
    gitems,        \* Stack._items of the generic Stack of typing_.py
    stamp,         \* history: number of Stack calls made
    pushed,        \* history, per stack: the items pushed and not yet popped,
                   \* each with the stamp of its push
    arg_items,     \* the caller's list object passed to heapify_list as items
    ex_dict        \* per DescriptorExample instance: its __dict__, as whether it
                   \* has the key "x" and the value under it

heapVars == <<heap, entry_finder, live>>

lruVars == <<maxsize, cache, clock, lastUse, lastPut>>

exprVars == <<operands, operators>>

schedVars == <<tasks, q, sent, results, pc>>

stackVars == <<items, gitems, stamp, pushed>>

listVars == <<arg_items>>

descVars == <<ex_dict>>

vars == <<op, ret, heapVars, lruVars, exprVars, schedVars, stackVars, listVars, descVars>>

At(s, i) == s[i + 1]

SetAt(s, i, v) == [s EXCEPT ![i + 1] = v]

NoCall == [name |-> "none"]

Min(S) == CHOOSE x \in S : \A y \in S : x <= y

(***************************************************************************)
(* IndexedHeap (heap.py).  An entry is the two-element list                *)
(* [priority, item]; the model adds the identity of the list object, since *)
(* remove() mutates the entry that entry_finder and heap both refer to.    *)
(* heapq compares entries as lists: by priority and, on a tie, by item,    *)
(* where a removed entry's item is the string REMOVED.  Items are any      *)
(* hashable values: the model has strings (as in the tests) and integers,  *)
(* and str < int raises TypeError.  heapq is CPython's _heapq, which sifts *)
(* by swapping, so that a comparison that raises leaves the swaps made.    *)
(***************************************************************************)
REMOVED == "<removed>"

\* the strings "a" and "b"
StrItems == {"a", "b"}

\* the integers 1 and 2 (written as names, to keep items of one TLA+ type)
IntItems == {"1", "2"}

Items == StrItems \cup IntItems

MaxPriority == 2

Priorities == 0 .. MaxPriority

\* most entries the heap list holds at a time
MaxHeap == 3

\* in op.old: the item pushed was not live before the call
NoPriority == -1

ItemType(i) == IF i \in IntItems THEN "int" ELSE "str"

\* Python's order within a type: "<removed>" < "a" < "b" (code point 0x3C
\* of "<" is below the letters), and 1 < 2
ItemRank(i) == CASE i = REMOVED -> 0
                 [] i = "a" -> 1
                 [] i = "b" -> 2
                 [] i = "1" -> 1
                 [] i = "2" -> 2

\* list.__lt__ on [priority, item]: the first elements that differ decide;
\* "lt", "ge", or "TypeError" when these are a str and an int
EntryLT(a, b) ==
    IF a.priority # b.priority
    THEN IF a.priority < b.priority THEN "lt" ELSE "ge"
    ELSE IF a.item = b.item THEN "ge"
    ELSE IF ItemType(a.item) # ItemType(b.item) THEN "TypeError"
    ELSE IF ItemRank(a.item) < ItemRank(b.item) THEN "lt" ELSE "ge"

Swap(h, i, j) == [h EXCEPT ![i + 1] = h[j + 1], ![j + 1] = h[i + 1]]

\* _heapq siftdown(heap, startpos, pos): [exc, heap]
RECURSIVE siftdown(_, _, _)
siftdown(h, startpos, pos) ==
    IF pos > startpos
    THEN LET parentpos == (pos - 1) \div 2
             cmp == EntryLT(At(h, pos), At(h, parentpos))
         IN CASE cmp = "TypeError" -> [exc |-> TRUE, heap |-> h]
              [] cmp = "lt" -> siftdown(Swap(h, pos, parentpos), startpos, parentpos)
              [] cmp = "ge" -> [exc |-> FALSE, heap |-> h]
    ELSE [exc |-> FALSE, heap |-> h]

\* the loop of _heapq siftup: bubble the smaller child up until a leaf
RECURSIVE SiftUpLoop(_, _, _)
SiftUpLoop(h, startpos, pos) ==
    LET endpos == Len(h)
        childpos == 2 * pos + 1
        rightpos == childpos + 1
        cmp == IF rightpos < endpos THEN EntryLT(At(h, childpos), At(h, rightpos))
               ELSE "lt"
        c == IF cmp = "lt" THEN childpos ELSE rightpos
    IN IF childpos < endpos
       THEN IF cmp = "TypeError" THEN [exc |-> TRUE, heap |-> h]
            ELSE SiftUpLoop(Swap(h, pos, c), startpos, c)
       ELSE siftdown(h, startpos, pos)

\* _heapq siftup(heap, pos): [exc, heap]
siftup(h, pos) == SiftUpLoop(h, pos, pos)

\* heapq.heappush(heap, item): [exc, heap]
heappush(h, e) == siftdown(Append(h, e), 0, Len(h))

\* heapq.heappop(heap) on a non-empty heap: [exc, item, heap]; when the
\* sift raises, the root taken out is dropped with the exception
heappop(h) ==
    LET lastelt == h[Len(h)]
        rest == SubSeq(h, 1, Len(h) - 1)
        r == siftup(SetAt(rest, 0, lastelt), 0)
    IN IF rest # <<>>
       THEN [exc |-> r.exc, item |-> h[1], heap |-> r.heap]
       ELSE [exc |-> FALSE, item |-> lastelt, heap |-> rest]

\* dict without one key
Without(f, k) == [x \in DOMAIN f \ {k} |-> f[x]]

\* dict with f[k] = v
With(f, k, v) == [x \in DOMAIN f \cup {k} |-> IF x = k THEN v ELSE f[x]]

EmptyDict == [x \in {} |-> 0]

\* entry[-1] = REMOVED on the entry object with identity id
MarkRemoved(h, id) ==
    [i \in DOMAIN h |-> IF h[i].id = id THEN [h[i] EXCEPT !.item = REMOVED] ELSE h[i]]

\* IndexedHeap.remove as called from push: the heap after it
RemoveEntry(h, finder, item) == MarkRemoved(h, finder[item])

\* identity of a newly created entry object: one no object in use has
FreshId(h, finder) ==
    Min({i \in 1 .. Len(h) + Cardinality(DOMAIN finder) + 1 :
            /\ \A j \in DOMAIN h : h[j].id # i
            /\ \A k \in DOMAIN finder : finder[k] # i})

\* the body of IndexedHeap.push: what push(item, priority) returns or raises
\* and the heap and entry_finder it leaves
PushResult(h, finder, item, priority) ==
    LET present == item \in DOMAIN finder
        h1 == IF present THEN RemoveEntry(h, finder, item) ELSE h
        entry == [id |-> FreshId(h, finder), priority |-> priority, item |-> item]
        r == heappush(h1, entry)
    IN [heap |-> r.heap, entry_finder |-> With(finder, item, entry.id),
        ret |-> IF r.exc THEN "TypeError" ELSE "None"]

\* the loop of IndexedHeap.pop: discard entries until one is not REMOVED
RECURSIVE PopLoop(_)
PopLoop(h) ==
    IF h = <<>>
    THEN [heap |-> h, exc |-> FALSE, found |-> FALSE, item |-> REMOVED]
    ELSE LET r == heappop(h)
         IN IF r.exc
            THEN [heap |-> r.heap, exc |-> TRUE, found |-> FALSE, item |-> REMOVED]
            ELSE IF r.item.item # REMOVED
            THEN [heap |-> r.heap, exc |-> FALSE, found |-> TRUE, item |-> r.item.item]
            ELSE PopLoop(r.heap)

\* the body of IndexedHeap.pop: what it returns or raises and the state it
\* leaves; `del self.entry_finder[item]` raises KeyError for an absent item
PopResult(h, finder) ==
    LET r == PopLoop(h)
    IN IF r.exc
       THEN [heap |-> r.heap, entry_finder |-> finder, ret |-> "TypeError"]
       ELSE IF r.found /\ r.item \in DOMAIN finder
       THEN [heap |-> r.heap, entry_finder |-> Without(finder, r.item), ret |-> r.item]
       ELSE [heap |-> r.heap, entry_finder |-> finder, ret |-> "KeyError"]

HeapInit ==
    /\ heap = <<>>
    /\ entry_finder = EmptyDict
    /\ live = EmptyDict

\* IndexedHeap.push(item, priority)
Push(item, priority) ==
    /\ Len(heap) < MaxHeap
    /\ LET r == PushResult(heap, entry_finder, item, priority)
       IN /\ heap' = r.heap
          /\ entry_finder' = r.entry_finder
          /\ ret' = r.ret
    /\ live' = With(live, item, priority)
    /\ op' = [name |-> "push", item |-> item, priority |-> priority,
              old |-> IF item \in DOMAIN live THEN live[item] ELSE NoPriority]

\* IndexedHeap.remove(item); dict.pop raises KeyError for an absent item
Remove(item) ==
    /\ op' = [name |-> "remove", item |-> item]
    /\ IF item \in DOMAIN entry_finder
       THEN /\ heap' = RemoveEntry(heap, entry_finder, item)
            /\ entry_finder' = Without(entry_finder, item)
            /\ live' = Without(live, item)
            /\ ret' = "None"
       ELSE /\ ret' = "KeyError"
            /\ UNCHANGED <<heap, entry_finder, live>>

\* IndexedHeap.pop()
Pop ==
    /\ op' = [name |-> "pop"]
    /\ LET r == PopResult(heap, entry_finder)
       IN /\ heap' = r.heap
          /\ entry_finder' = r.entry_finder
          /\ ret' = r.ret
          /\ live' = IF r.ret \in Items THEN Without(live, r.ret) ELSE live

\* the calls made with items of the set S; a TypeError is caught by no
\* one, and ends the run
HeapCalls(S) ==
    /\ ret # "TypeError"
    /\ \/ \E item \in S, priority \in Priorities : Push(item, priority)
       \/ \E item \in S : Remove(item)
       \/ Pop

HeapNext == HeapCalls(Items)

(***************************************************************************)
(* LRUCache (dict.py).  The OrderedDict is the sequence of its             *)
(* [key, value] entries in iteration order: popitem(last=False) takes the  *)
(* first, move_to_end and the insertion of a new key put an entry last,    *)
(* and assigning to a key already present keeps its position.              *)
(***************************************************************************)
Keys == {"k1", "k2", "k3"}

Values == {"v1", "v2"}

MaxSize == 2

\* calls made on one cache
MaxOps == 6

CacheKeys(c) == {c[i].key : i \in DOMAIN c}

\* self._cache[key] for a key that is present
CacheValue(c, key) == c[CHOOSE i \in DOMAIN c : c[i].key = key].value

\* the entries of c other than that of key, in order
RECURSIVE DropKey(_, _)
DropKey(c, key) ==
    IF c = <<>> THEN <<>>
    ELSE IF Head(c).key = key THEN DropKey(Tail(c), key)
    ELSE <<Head(c)>> \o DropKey(Tail(c), key)

\* OrderedDict.move_to_end(key) for a key that is present
move_to_end(c, key) ==
    Append(DropKey(c, key), [key |-> key, value |-> CacheValue(c, key)])

\* OrderedDict.__setitem__
setitem(c, key, value) ==
    IF key \in CacheKeys(c)
    THEN [i \in DOMAIN c |-> IF c[i].key = key THEN [c[i] EXCEPT !.value = value] ELSE c[i]]
    ELSE Append(c, [key |-> key, value |-> value])

\* OrderedDict.popitem(last=False)
popitem_first(c) == Tail(c)

\* put that assigns without moving the key to the end
PutResult_NoMove(c, ms, key, value) ==
    LET c2 == setitem(c, key, value)
    IN IF Len(c2) > ms THEN popitem_first(c2) ELSE c2

\* put that leaves the value of a key already present as it was
PutResult_KeepOld(c, ms, key, value) ==
    LET c1 == IF key \in CacheKeys(c) THEN move_to_end(c, key) ELSE c
        c2 == IF key \in CacheKeys(c) THEN c1 ELSE setitem(c1, key, value)
    IN IF Len(c2) > ms THEN popitem_first(c2) ELSE c2

\* the body of LRUCache.put: the OrderedDict after put(key, value)
PutResult(c, ms, key, value) ==
    LET c1 == IF key \in CacheKeys(c) THEN move_to_end(c, key) ELSE c
        c2 == setitem(c1, key, value)
    IN IF Len(c2) > ms THEN popitem_first(c2) ELSE c2

\* the body of LRUCache.get: what it returns and the OrderedDict after it
GetResult(c, key) ==
    IF key \notin CacheKeys(c)
    THEN [ret |-> "None", cache |-> c]
    ELSE LET c1 == move_to_end(c, key)
         IN [ret |-> CacheValue(c1, key), cache |-> c1]

\* LRUCache(maxsize)
LRUInit ==
    /\ maxsize \in 0 .. MaxSize
    /\ cache = <<>>
    /\ clock = 0
    /\ lastUse = EmptyDict
    /\ lastPut = EmptyDict

\* LRUCache.put(key, value)
Put(key, value) ==
    /\ clock < MaxOps
    /\ clock' = clock + 1
    /\ op' = [name |-> "put", key |-> key, value |-> value]
    /\ ret' = "None"
    /\ cache' = PutResult(cache, maxsize, key, value)
    /\ lastUse' = With(lastUse, key, clock')
    /\ lastPut' = LET p == With(lastPut, key, value)
                  IN [k \in DOMAIN p \cap CacheKeys(cache') |-> p[k]]
    /\ UNCHANGED maxsize

\* LRUCache.get(key)
Get(key) ==
    /\ clock < MaxOps
    /\ clock' = clock + 1
    /\ op' = [name |-> "get", key |-> key]
    /\ LET r == GetResult(cache, key)
       IN /\ ret' = r.ret
          /\ cache' = r.cache
    /\ lastUse' = IF key \in CacheKeys(cache) THEN With(lastUse, key, clock') ELSE lastUse
    /\ UNCHANGED <<maxsize, lastPut>>

LRUNext ==
    \/ \E key \in Keys, value \in Values : Put(key, value)
    \/ \E key \in Keys : Get(key)

(***************************************************************************)
(* The expression evaluator (generator.py): tokenize, parse, Evaluator.    *)
(* A text is a sequence of one-character strings.  Python's int / int is a *)
(* float; the model computes in exact fractions [num, den] in lowest terms *)
(* and so abstracts from the rounding of floats.  A result is a record     *)
(* [exc, num, den] with exc = "none" for a value returned.                 *)
(***************************************************************************)
Digits == <<"0", "1", "2", "3", "4", "5", "6", "7", "8", "9">>

IsDigit(c) == \E i \in DOMAIN Digits : Digits[i] = c

DigitVal(c) == (CHOOSE i \in DOMAIN Digits : Digits[i] = c) - 1

\* the pattern of tokenize that matches a text starting with c; WS is \s+
TokType(c) ==
    CASE IsDigit(c) -> "NUMBER"
      [] c = "+" -> "PLUS"
      [] c = "-" -> "MINUS"
      [] c = "*" -> "TIMES"
      [] c = "/" -> "DIVIDE"
      [] c = " " -> "WS"
      [] OTHER -> "nomatch"

\* length of the match of \d+ or \s+ (greedy) at the start of s
RECURSIVE RunLen(_, _)
RunLen(s, type) ==
    IF s # <<>> /\ TokType(Head(s)) = type THEN 1 + RunLen(Tail(s), type) ELSE 0

\* tokenize(text): scan.match is applied until it returns None, which it
\* does at the end of the text and at a character no pattern matches;
\* WS tokens are filtered out.
RECURSIVE tokenize(_)
tokenize(s) ==
    IF s = <<>> THEN <<>>
    ELSE LET type == TokType(Head(s))
             n == IF type \in {"NUMBER", "WS"} THEN RunLen(s, type) ELSE 1
             tok == [type |-> type, value |-> SubSeq(s, 1, n)]
             rest == SubSeq(s, n + 1, Len(s))
         IN IF type = "nomatch" THEN <<>>
            ELSE IF type = "WS" THEN tokenize(rest)
            ELSE <<tok>> \o tokenize(rest)

\* int(current.value) on a string of decimal digits
RECURSIVE int(_)
int(ds) == IF ds = <<>> THEN 0 ELSE 10 * int(SubSeq(ds, 1, Len(ds) - 1)) + DigitVal(ds[Len(ds)])

Number(value) == [node |-> "Number", value |-> value]

BinOp(o, left, right) == [node |-> "BinOp", op |-> o, left |-> left, right |-> right]

ParseError == [ok |-> FALSE, tree |-> Number(0), rest |-> <<>>]

\* parse.accept(*toktypes) on the tokens not yet consumed
accept(toks, toktypes) == toks # <<>> /\ Head(toks).type \in toktypes

\* parse.factor: [ok, tree, rest]; ok = FALSE when SyntaxError is raised
factor(toks) ==
    IF accept(toks, {"NUMBER"})
    THEN [ok |-> TRUE, tree |-> Number(int(Head(toks).value)), rest |-> Tail(toks)]
    ELSE ParseError

\* a term loop that takes + and - as well, giving all four operators one
\* precedence
RECURSIVE TermLoop_Flat(_, _)
TermLoop_Flat(left, toks) ==
    IF accept(toks, {"TIMES", "DIVIDE", "PLUS", "MINUS"})
    THEN LET r == factor(Tail(toks))
         IN IF r.ok THEN TermLoop_Flat(BinOp(Head(toks).value[1], left, r.tree), r.rest)
            ELSE ParseError
    ELSE [ok |-> TRUE, tree |-> left, rest |-> toks]

\* the while loop of parse.term, with `left` so far
RECURSIVE TermLoop(_, _)
TermLoop(left, toks) ==
    IF accept(toks, {"TIMES", "DIVIDE"})
    THEN LET r == factor(Tail(toks))
         IN IF r.ok THEN TermLoop(BinOp(Head(toks).value[1], left, r.tree), r.rest)
            ELSE ParseError
    ELSE [ok |-> TRUE, tree |-> left, rest |-> toks]

\* parse.term
term(toks) ==
    LET l == factor(toks) IN IF l.ok THEN TermLoop(l.tree, l.rest) ELSE ParseError

\* the while loop of parse.expr, with `left` so far
RECURSIVE ExprLoop(_, _)
ExprLoop(left, toks) ==
    IF accept(toks, {"PLUS", "MINUS"})
    THEN LET r == term(Tail(toks))
         IN IF r.ok THEN ExprLoop(BinOp(Head(toks).value[1], left, r.tree), r.rest)
            ELSE ParseError
    ELSE [ok |-> TRUE, tree |-> left, rest |-> toks]

\* parse.expr
expr(toks) ==
    LET l == term(toks) IN IF l.ok THEN ExprLoop(l.tree, l.rest) ELSE ParseError

\* parse(toks): returns expr(); the tokens expr() leaves are not looked at
parse(toks) == expr(toks)

Abs(n) == IF n < 0 THEN -n ELSE n

RECURSIVE GCD(_, _)
GCD(a, b) == IF b = 0 THEN a ELSE GCD(b, a % b)

\* the number n / d, d # 0
Frac(n, d) ==
    LET g == GCD(Abs(n), Abs(d))
        sgn == IF d < 0 THEN -1 ELSE 1
    IN [exc |-> "none", num |-> sgn * (n \div g), den |-> sgn * (d \div g)]

Raised(e) == [exc |-> e, num |-> 0, den |-> 1]

\* the lambdas of Evaluator.visit_BinOp
ApplyOp(o, a, b) ==
    CASE o = "+" -> Frac(a.num * b.den + b.num * a.den, a.den * b.den)
      [] o = "-" -> Frac(a.num * b.den - b.num * a.den, a.den * b.den)
      [] o = "*" -> Frac(a.num * b.num, a.den * b.den)
      [] o = "/" -> IF b.num = 0 THEN Raised("ZeroDivisionError")
                    ELSE Frac(a.num * b.den, a.den * b.num)

\* Evaluator().visit(tree): visit_Number returns the value; visit_BinOp
\* yields the left node, then the right one, then applies the operator
RECURSIVE visit(_)
visit(tree) ==
    IF tree.node = "Number" THEN Frac(tree.value, 1)
    ELSE LET leftval == visit(tree.left)
             rightval == visit(tree.right)
         IN IF leftval.exc # "none" THEN leftval
            ELSE IF rightval.exc # "none" THEN rightval
            ELSE ApplyOp(tree.op, leftval, rightval)

\* evaluate(exp)
evaluate(exp) ==
    LET tree == parse(tokenize(exp))
    IN IF tree.ok THEN visit(tree.tree) ELSE Raised("SyntaxError")

\* characters typed into a text
Chars == {"2", "3", "+", "-", "*", "/", " ", "a"}

MaxLen == 4

\* the texts of at most n characters
RECURSIVE Texts(_)
Texts(n) ==
    IF n = 0 THEN {<<>>}
    ELSE LET shorter == Texts(n - 1)
         IN shorter \cup {Append(t, c) : t \in {x \in shorter : Len(x) = n - 1}, c \in Chars}

\* a call evaluate(exp) about to be made on any text
EvalInit ==
    /\ op \in {[name |-> "call", exp |-> t] : t \in Texts(MaxLen)}
    /\ ret = Raised("pending")

\* evaluate(exp) runs to its return or its exception
Evaluate ==
    /\ op.name = "call"
    /\ op' = [op EXCEPT !.name = "evaluate"]
    /\ ret' = evaluate(op.exp)

(***************************************************************************)
(* Well-formed expressions: numbers joined by operators, written out as    *)
(* text, bare ("2+3*5") or spaced as in the tests ("2 + 3 * 5").           *)
(***************************************************************************)
Numbers == {0, 2, 3, 5, 10}

Operators == {"+", "-", "*", "/"}

MaxOperands == 3

\* str(n) for n >= 0, as characters
RECURSIVE Str(_)
Str(n) == IF n < 10 THEN <<Digits[n + 1]>> ELSE Str(n \div 10) \o <<Digits[(n % 10) + 1]>>

\* the text of nums[1] ops[1] nums[2] ... nums[n]
RECURSIVE Written(_, _, _)
Written(nums, ops, spaced) ==
    IF Len(nums) = 1 THEN Str(nums[1])
    ELSE LET n == Len(nums)
             sp == IF spaced THEN <<" ">> ELSE <<>>
         IN Written(SubSeq(nums, 1, n - 1), SubSeq(ops, 1, n - 2), spaced)
                \o sp \o <<ops[n - 1]>> \o sp \o Str(nums[n])

\* a call evaluate(exp) about to be made on any well-formed expression
ExprInit ==
    \E n \in 1 .. MaxOperands, spaced \in BOOLEAN :
        /\ operands \in [1 .. n -> Numbers]
        /\ operators \in [1 .. n - 1 -> Operators]
        /\ op = [name |-> "call", exp |-> Written(operands, operators, spaced)]
        /\ ret = Raised("pending")

ExprIdle == operands = <<>> /\ operators = <<>>

(***************************************************************************)
(* run_scheduler (generator.py).  A task is a generator that yields a      *)
(* finite number of values and then raises StopIteration, like g_fib(n);   *)
(* the values of task i are named Yields[i][1], Yields[i][2], ... so that  *)
(* the order of results can be told.  One step is one iteration of the     *)
(* while loop.                                                             *)
(***************************************************************************)
MaxTasks == 3

MaxYield == 2

Yields == << <<"a1", "a2", "a3", "a4">>, <<"b1", "b2", "b3", "b4">>,
             <<"c1", "c2", "c3", "c4">>, <<"d1", "d2", "d3", "d4">> >>

\* run_scheduler(tasks) is called: q = deque(tasks), results = []
SchedInit ==
    /\ \E n \in 0 .. MaxTasks : tasks \in [1 .. n -> 0 .. MaxYield]
    /\ q = [i \in DOMAIN tasks |-> i]
    /\ sent = [i \in DOMAIN tasks |-> 0]
    /\ results = <<>>
    /\ pc = "loop"
    /\ op = [name |-> "run_scheduler"]
    /\ ret = <<>>

\* a loop body that puts the task back at the front of the deque
StepResult_Front(qq, snt, res, tsk) ==
    LET t == Head(qq)
    IN IF snt[t] < tsk[t]
       THEN [q |-> <<t>> \o Tail(qq),
             sent |-> [snt EXCEPT ![t] = snt[t] + 1],
             results |-> Append(res, Yields[t][snt[t] + 1])]
       ELSE [q |-> Tail(qq), sent |-> snt, results |-> Append(res, "done")]

\* the body of the while loop: t = q.popleft(); next(t) either yields a
\* value, which is appended before t is put back, or raises StopIteration
StepResult(qq, snt, res, tsk) ==
    LET t == Head(qq)
    IN IF snt[t] < tsk[t]
       THEN [q |-> Append(Tail(qq), t),
             sent |-> [snt EXCEPT ![t] = snt[t] + 1],
             results |-> Append(res, Yields[t][snt[t] + 1])]
       ELSE [q |-> Tail(qq), sent |-> snt, results |-> Append(res, "done")]

\* one iteration of `while q`
Step ==
    /\ pc = "loop"
    /\ q # <<>>
    /\ LET r == StepResult(q, sent, results, tasks)
       IN /\ q' = r.q
          /\ sent' = r.sent
          /\ results' = r.results
    /\ UNCHANGED <<tasks, pc, op, ret>>

\* `while q` ends, `return results`
Return ==
    /\ pc = "loop"
    /\ q = <<>>
    /\ pc' = "returned"
    /\ ret' = results
    /\ UNCHANGED <<tasks, q, sent, results, op>>

SchedNext == Step \/ Return

SchedIdle ==
    /\ tasks = <<>>
    /\ q = <<>>
    /\ sent = <<>>
    /\ results = <<>>
    /\ pc = "idle"

(***************************************************************************)
(* Stack (list.py) and the generic Stack (typing_.py): a list used at its  *)
(* end.  list.pop() on an empty list raises IndexError.                    *)
(***************************************************************************)
StackItems == {"x", "y"}

\* calls made on the two stacks
MaxCalls == 5

\* list.py Stack.push: self._items.append(item)
StackPush(its, item) == Append(its, item)

\* a pop that takes the oldest item
StackPop_Oldest(its) ==
    IF its = <<>> THEN [ret |-> "IndexError", items |-> its]
    ELSE [ret |-> Head(its), items |-> Tail(its)]

\* list.py Stack.pop: self._items.pop()
StackPop(its) ==
    IF its = <<>> THEN [ret |-> "IndexError", items |-> its]
    ELSE [ret |-> its[Len(its)], items |-> SubSeq(its, 1, Len(its) - 1)]

\* list.py Stack.is_empty: len(self._items) == 0
StackIsEmpty(its) == IF Len(its) = 0 THEN "True" ELSE "False"

\* typing_.py Stack.push
GStackPush(its, item) == Append(its, item)

\* typing_.py Stack.pop
GStackPop(its) ==
    IF its = <<>> THEN [ret |-> "IndexError", items |-> its]
    ELSE [ret |-> its[Len(its)], items |-> SubSeq(its, 1, Len(its) - 1)]

\* typing_.py Stack.is_empty
GStackIsEmpty(its) == IF Len(its) = 0 THEN "True" ELSE "False"

\* Stack() of each module
StackInit ==
    /\ items = <<>>
    /\ gitems = <<>>
    /\ stamp = 0
    /\ pushed = [s \in {"list", "typing"} |-> {}]

\* history: the newest of a set of stamped items
Newest(P) == CHOOSE e \in P : \A f \in P : f.stamp <= e.stamp

\* history after a pop on stack s: the most recently pushed item is gone
Popped(s) ==
    IF pushed[s] = {} THEN pushed
    ELSE [pushed EXCEPT ![s] = pushed[s] \ {Newest(pushed[s])}]

\* s.push(item) on the Stack of module `which`
DoPush(which, item) ==
    /\ stamp < MaxCalls
    /\ stamp' = stamp + 1
    /\ op' = [name |-> "push", stack |-> which, item |-> item]
    /\ ret' = "None"
    /\ IF which = "list"
       THEN items' = StackPush(items, item) /\ UNCHANGED gitems
       ELSE gitems' = GStackPush(gitems, item) /\ UNCHANGED items
    /\ pushed' = [pushed EXCEPT ![which] = pushed[which] \cup {[stamp |-> stamp', item |-> item]}]

\* s.pop() on the Stack of module `which`
DoPop(which) ==
    /\ stamp < MaxCalls
    /\ stamp' = stamp + 1
    /\ op' = [name |-> "pop", stack |-> which]
    /\ IF which = "list"
       THEN LET r == StackPop(items)
            IN ret' = r.ret /\ items' = r.items /\ UNCHANGED gitems
       ELSE LET r == GStackPop(gitems)
            IN ret' = r.ret /\ gitems' = r.items /\ UNCHANGED items
    /\ pushed' = Popped(which)

\* s.is_empty() on the Stack of module `which`
DoIsEmpty(which) ==
    /\ stamp < MaxCalls
    /\ stamp' = stamp + 1
    /\ op' = [name |-> "is_empty", stack |-> which]
    /\ ret' = IF which = "list" THEN StackIsEmpty(items) ELSE GStackIsEmpty(gitems)
    /\ UNCHANGED <<items, gitems, pushed>>

StackNext ==
    \E which \in {"list", "typing"} :
        \/ \E item \in StackItems : DoPush(which, item)
        \/ DoPop(which)
        \/ DoIsEmpty(which)

StackIdle ==
    /\ items = <<>>
    /\ gitems = <<>>
    /\ stamp = 0
    /\ pushed = <<>>

(***************************************************************************)
(* top_k (heap.py), on lists of integers.  A result is a record            *)
(* [exc, value] with exc = "none" for a list returned.                     *)
(***************************************************************************)
MaxItem == 3

\* len(items) at most
MaxItems == 4

MaxK == 3

\* _heapq siftdown on a heap of integers
RECURSIVE isiftdown(_, _, _)
isiftdown(h, startpos, pos) ==
    IF pos > startpos
    THEN LET parentpos == (pos - 1) \div 2
         IN IF At(h, pos) < At(h, parentpos)
            THEN isiftdown(Swap(h, pos, parentpos), startpos, parentpos)
            ELSE h
    ELSE h

\* _heapq siftup on a heap of integers
RECURSIVE isiftup(_, _, _)
isiftup(h, startpos, pos) ==
    LET endpos == Len(h)
        childpos == 2 * pos + 1
        rightpos == childpos + 1
        c == IF rightpos < endpos /\ ~(At(h, childpos) < At(h, rightpos))
             THEN rightpos ELSE childpos
    IN IF childpos < endpos
       THEN isiftup(Swap(h, pos, c), startpos, c)
       ELSE isiftdown(h, startpos, pos)

\* heapq.heappush(h, x)
iheappush(h, x) == isiftdown(Append(h, x), 0, Len(h))

\* heapq.heapreplace(h, x) on a non-empty heap: the heap after it
iheapreplace(h, x) == isiftup(SetAt(h, 0, x), 0, 0)

\* sorted(h, reverse=True): insertion of each element into a descending list
RECURSIVE InsertDesc(_, _)
InsertDesc(s, x) ==
    IF s = <<>> THEN <<x>>
    ELSE IF x > Head(s) THEN <<x>> \o s
    ELSE <<Head(s)>> \o InsertDesc(Tail(s), x)

RECURSIVE SortedDesc(_)
SortedDesc(s) == IF s = <<>> THEN <<>> ELSE InsertDesc(SortedDesc(Tail(s)), Head(s))

\* the for loop of top_k over the items left: the heap at the end, or
\* IndexError from h[0] on an empty heap
RECURSIVE TopKLoop(_, _, _)
TopKLoop(h, rest, k) ==
    IF rest = <<>> THEN [exc |-> "none", value |-> h]
    ELSE LET x == Head(rest)
         IN IF Len(h) < k THEN TopKLoop(iheappush(h, x), Tail(rest), k)
            ELSE IF h = <<>> THEN [exc |-> "IndexError", value |-> <<>>]
            ELSE IF x > At(h, 0) THEN TopKLoop(iheapreplace(h, x), Tail(rest), k)
            ELSE TopKLoop(h, Tail(rest), k)

\* top_k(items, k)
top_k(its, k) ==
    LET r == TopKLoop(<<>>, its, k)
    IN IF r.exc = "none" THEN [exc |-> "none", value |-> SortedDesc(r.value)] ELSE r

\* the lists of at most n integers of 1 .. MaxItem
RECURSIVE IntLists(_)
IntLists(n) ==
    IF n = 0 THEN {<<>>}
    ELSE LET shorter == IntLists(n - 1)
         IN shorter \cup {Append(t, x) : t \in {y \in shorter : Len(y) = n - 1},
                                          x \in 1 .. MaxItem}

\* a call top_k(items, k) about to be made
TopKInit ==
    /\ op \in {[name |-> "call", items |-> l, k |-> k] : l \in IntLists(MaxItems), k \in 0 .. MaxK}
    /\ ret = [exc |-> "pending", value |-> <<>>]

\* top_k(items, k) runs to its return or its exception
TopK ==
    /\ op.name = "call"
    /\ op' = [op EXCEPT !.name = "top_k"]
    /\ ret' = top_k(op.items, op.k)

(***************************************************************************)
(* binary_search (list.py), on sorted lists of integers, with              *)
(* bisect.bisect_left.  hi is a record field only when hiGiven; without    *)
(* it the call leaves hi at its default None.                              *)
(***************************************************************************)
\* len(arr) at most
MaxArr == 3

\* the elements are 1 .. MaxElem; x is looked for among 0 .. MaxElem + 1
MaxElem == 2

IsSorted(a) == \A i, j \in DOMAIN a : i < j => a[i] <= a[j]

\* a bisection that moves right past elements equal to x (bisect_right)
RECURSIVE BisectLoop_Right(_, _, _, _)
BisectLoop_Right(a, x, lo, hi) ==
    IF lo < hi
    THEN LET mid == (lo + hi) \div 2
         IN IF mid >= Len(a) THEN [exc |-> "IndexError", value |-> 0]
            ELSE IF x < At(a, mid) THEN BisectLoop_Right(a, x, lo, mid)
            ELSE BisectLoop_Right(a, x, mid + 1, hi)
    ELSE [exc |-> "none", value |-> lo]

\* the while loop of bisect_left: a[mid] raises IndexError past the end
RECURSIVE BisectLoop(_, _, _, _)
BisectLoop(a, x, lo, hi) ==
    IF lo < hi
    THEN LET mid == (lo + hi) \div 2
         IN IF mid >= Len(a) THEN [exc |-> "IndexError", value |-> 0]
            ELSE IF At(a, mid) < x THEN BisectLoop(a, x, mid + 1, hi)
            ELSE BisectLoop(a, x, lo, mid)
    ELSE [exc |-> "none", value |-> lo]

\* bisect.bisect_left(a, x, lo, hi)
bisect_left(a, x, lo, hi) ==
    IF lo < 0 THEN [exc |-> "ValueError", value |-> 0] ELSE BisectLoop(a, x, lo, hi)

\* binary_search(arr, x, lo, hi)
binary_search(arr, x, lo, hiGiven, hiArg) ==
    LET hi == IF hiGiven THEN hiArg ELSE Len(arr)
        r == bisect_left(arr, x, lo, hi)
        pos == r.value
    IN IF r.exc # "none" THEN r
       ELSE IF pos # hi
       THEN IF pos >= Len(arr) THEN [exc |-> "IndexError", value |-> 0]
            ELSE IF At(arr, pos) = x THEN [exc |-> "none", value |-> pos]
            ELSE [exc |-> "none", value |-> -1]
       ELSE [exc |-> "none", value |-> -1]

\* the lists of at most n integers of 1 .. MaxElem
RECURSIVE ElemLists(_)
ElemLists(n) ==
    IF n = 0 THEN {<<>>}
    ELSE LET shorter == ElemLists(n - 1)
         IN shorter \cup {Append(t, x) : t \in {y \in shorter : Len(y) = n - 1},
                                          x \in 1 .. MaxElem}

\* a call binary_search(arr, x, lo[, hi]) about to be made on a sorted list,
\* with any bounds from 0 to one past len(arr)
SearchInit ==
    /\ \E arr \in {a \in ElemLists(MaxArr) : IsSorted(a)} :
          op \in {[name |-> "call", arr |-> arr, x |-> x, lo |-> lo, hiGiven |-> g, hi |-> hi] :
                     x \in 0 .. MaxElem + 1, lo \in 0 .. Len(arr) + 1,
                     g \in BOOLEAN, hi \in 0 .. Len(arr) + 1}
    /\ ~op.hiGiven => op.hi = 0
    /\ ret = [exc |-> "pending", value |-> 0]

\* binary_search runs to its return or its exception
Search ==
    /\ op.name = "call"
    /\ op' = [op EXCEPT !.name = "binary_search"]
    /\ ret' = binary_search(op.arr, op.x, op.lo, op.hiGiven, op.hi)

(***************************************************************************)
(* heapify_list (heap.py), on lists of integers.  arg_items is the list    *)
(* object the caller passes; h is the list the function works on.          *)
(***************************************************************************)

\* heapq.heapify(h): siftup at n // 2 - 1, ..., 0
RECURSIVE HeapifyLoop(_, _)
HeapifyLoop(h, i) == IF i < 0 THEN h ELSE HeapifyLoop(isiftup(h, i, i), i - 1)

heapify(h) == HeapifyLoop(h, Len(h) \div 2 - 1)

\* items.copy(): a new list object with the same elements
copy(its) == its

\* heapify_list(items): the caller's list after the call and the list returned.
\* h is the copy, so items is not assigned
heapify_list(its) ==
    LET h == copy(its)
    IN [items |-> its, ret |-> heapify(h)]

\* a call heapify_list(items) about to be made
HeapifyInit ==
    /\ arg_items \in IntLists(MaxItems)
    /\ op = [name |-> "call", items |-> arg_items]
    /\ ret = <<>>

\* heapify_list(items) runs to its return
HeapifyList ==
    /\ op.name = "call"
    /\ LET r == heapify_list(arg_items)
       IN /\ op' = [name |-> "heapify_list", items |-> arg_items]
          /\ arg_items' = r.items
          /\ ret' = r.ret

(***************************************************************************)
(* The Positive descriptor and DescriptorExample (object.py), on integer   *)
(* values.  The one descriptor object of the class stores the value of     *)
(* each instance in that instance's __dict__ under "x".                    *)
(***************************************************************************)
Instances == {"e1", "e2"}

\* the values assigned are -MaxValue .. MaxValue
MaxValue == 2

DescValues == -MaxValue .. MaxValue

\* an instance __dict__ without the key "x"
NoAttr == [has |-> FALSE, x |-> 0]

\* Positive.__set__(obj, value), on obj.__dict__
Positive_set(d, value) ==
    IF value < 0 THEN [exc |-> "ValueError", dict |-> d]
    ELSE [exc |-> "none", dict |-> [has |-> TRUE, x |-> value]]

\* no DescriptorExample made yet
DescInit == ex_dict = [o \in Instances |-> NoAttr]

\* o = DescriptorExample(x): __init__ assigns self.x = x; when that raises,
\* the name o stays without an instance
Construct(o, x) ==
    /\ ~ex_dict[o].has
    /\ LET r == Positive_set(NoAttr, x)
       IN /\ op' = [name |-> "__init__", obj |-> o, value |-> x]
          /\ ret' = IF r.exc = "none" THEN "None" ELSE r.exc
          /\ ex_dict' = [ex_dict EXCEPT ![o] = IF r.exc = "none" THEN r.dict ELSE NoAttr]

\* o.x = value on an instance made before
SetX(o, value) ==
    /\ ex_dict[o].has
    /\ LET r == Positive_set(ex_dict[o], value)
       IN /\ op' = [name |-> "__set__", obj |-> o, value |-> value]
          /\ ret' = IF r.exc = "none" THEN "None" ELSE r.exc
          /\ ex_dict' = [ex_dict EXCEPT ![o] = r.dict]

DescNext ==
    \E o \in Instances, value \in DescValues :
        \/ Construct(o, value)
        \/ SetX(o, value)

(***************************************************************************)
(* create_trie and trie_has_prefix (list.py).  A word is the sequence of   *)
(* its characters.  The nested defaultdict is kept as the set of its       *)
(* nodes, each named by the keys that lead to it from the root (the root   *)
(* is <<>>), and the words stored under the key True, each with its node.  *)
(***************************************************************************)
Alphabet == {"a", "b"}

\* len(word) at most
MaxWordLen == 2

\* len(words) at most
MaxWords == 2

\* the key `end`; no character equals it
TrueKey == "True"

\* Trie(): an empty defaultdict
EmptyTrie == [nodes |-> {<<>>}, ends |-> {}]

\* the keys of the node at path
NodeKeys(trie, path) ==
    {c \in Alphabet : Append(path, c) \in trie.nodes}
        \cup (IF \E e \in trie.ends : e.at = path THEN {TrueKey} ELSE {})

\* reduce(dict.__getitem__, word, trie)[end] = word, from the node at path
\* with the characters rest still to follow: a missing key makes a node
RECURSIVE Insert(_, _, _, _)
Insert(trie, path, rest, word) ==
    IF rest = <<>>
    THEN [trie EXCEPT !.ends = {e \in trie.ends : e.at # path}
                                   \cup {[at |-> path, word |-> word]}]
    ELSE LET child == Append(path, Head(rest))
         IN Insert([trie EXCEPT !.nodes = trie.nodes \cup {child}],
                   child, Tail(rest), word)

\* the for loop of create_trie over the words left
RECURSIVE CreateLoop(_, _)
CreateLoop(trie, words) ==
    IF words = <<>> THEN trie
    ELSE CreateLoop(Insert(trie, <<>>, Head(words), Head(words)), Tail(words))

\* create_trie(words)
create_trie(words) == CreateLoop(EmptyTrie, words)

\* a search that also asks for a word to end at the node reached
RECURSIVE HasPrefixLoop_Word(_, _, _)
HasPrefixLoop_Word(trie, curr, rest) ==
    IF rest = <<>> THEN (IF TrueKey \in NodeKeys(trie, curr) THEN "True" ELSE "False")
    ELSE IF Head(rest) \notin NodeKeys(trie, curr) THEN "False"
    ELSE HasPrefixLoop_Word(trie, Append(curr, Head(rest)), Tail(rest))

\* the for loop of trie_has_prefix from the node curr
RECURSIVE HasPrefixLoop(_, _, _)
HasPrefixLoop(trie, curr, rest) ==
    IF rest = <<>> THEN "True"
    ELSE IF Head(rest) \notin NodeKeys(trie, curr) THEN "False"
    ELSE HasPrefixLoop(trie, Append(curr, Head(rest)), Tail(rest))

\* trie_has_prefix(trie, prefix)
trie_has_prefix(trie, prefix) == HasPrefixLoop(trie, <<>>, prefix)

\* the strings of at most n characters
RECURSIVE Strings(_)
Strings(n) ==
    IF n = 0 THEN {<<>>}
    ELSE LET shorter == Strings(n - 1)
         IN shorter \cup {Append(t, c) : t \in {y \in shorter : Len(y) = n - 1},
                                          c \in Alphabet}

\* the lists of at most n words
RECURSIVE WordLists(_)
WordLists(n) ==
    IF n = 0 THEN {<<>>}
    ELSE LET shorter == WordLists(n - 1)
         IN shorter \cup {Append(t, w) : t \in {y \in shorter : Len(y) = n - 1},
                                          w \in Strings(MaxWordLen)}

\* a call trie_has_prefix(create_trie(words), prefix) about to be made
TrieInit ==
    /\ op \in {[name |-> "call", words |-> ws, prefix |-> pf] :
                  ws \in WordLists(MaxWords), pf \in Strings(MaxWordLen + 1)}
    /\ ret = "pending"

\* trie_has_prefix(create_trie(words), prefix) runs to its return
TrieHasPrefix ==
    /\ op.name = "call"
    /\ op' = [op EXCEPT !.name = "trie_has_prefix"]
    /\ ret' = trie_has_prefix(create_trie(op.words), op.prefix)

\* the state of an example that is not running
DescIdle == ex_dict = <<>>

ListIdle == arg_items = <<>>

HeapIdle == heap = <<>> /\ entry_finder = EmptyDict /\ live = EmptyDict

LRUIdle ==
    /\ maxsize = 0
    /\ cache = <<>>
    /\ clock = 0
    /\ lastUse = EmptyDict
    /\ lastPut = EmptyDict

InitHeap == op = NoCall /\ ret = "None" /\ HeapInit /\ LRUIdle /\ ExprIdle /\ SchedIdle /\ StackIdle /\ ListIdle /\ DescIdle

NextHeap == HeapNext /\ UNCHANGED <<lruVars, exprVars, schedVars, stackVars, listVars, descVars>>

InitLRU == op = NoCall /\ ret = "None" /\ LRUInit /\ HeapIdle /\ ExprIdle /\ SchedIdle /\ StackIdle /\ ListIdle /\ DescIdle

NextLRU == LRUNext /\ UNCHANGED <<heapVars, exprVars, schedVars, stackVars, listVars, descVars>>

InitEval == EvalInit /\ HeapIdle /\ LRUIdle /\ ExprIdle /\ SchedIdle /\ StackIdle /\ ListIdle /\ DescIdle

NextEval == Evaluate /\ UNCHANGED <<heapVars, lruVars, exprVars, schedVars, stackVars, listVars, descVars>>

SpecEval == InitEval /\ [][NextEval]_vars

InitExpr == ExprInit /\ HeapIdle /\ LRUIdle /\ SchedIdle /\ StackIdle /\ ListIdle /\ DescIdle

NextExpr == Evaluate /\ UNCHANGED <<heapVars, lruVars, exprVars, schedVars, stackVars, listVars, descVars>>

SpecExpr == InitExpr /\ [][NextExpr]_vars

SpecLRU == InitLRU /\ [][NextLRU]_vars

SpecHeap == InitHeap /\ [][NextHeap]_vars

\* IndexedHeap used with string items only
NextHeapStr == HeapCalls(StrItems) /\ UNCHANGED <<lruVars, exprVars, schedVars, stackVars, listVars, descVars>>

SpecHeapStr == InitHeap /\ [][NextHeapStr]_vars

InitSched == SchedInit /\ HeapIdle /\ LRUIdle /\ ExprIdle /\ StackIdle /\ ListIdle /\ DescIdle

NextSched == SchedNext /\ UNCHANGED <<heapVars, lruVars, exprVars, stackVars, listVars, descVars>>

\* the loop has no way to stop but its own condition: every iteration that
\* can run does run
SpecSched == InitSched /\ [][NextSched]_vars /\ WF_vars(NextSched)

InitStack ==
    /\ op = NoCall /\ ret = "None" /\ StackInit
    /\ HeapIdle /\ LRUIdle /\ ExprIdle /\ SchedIdle /\ ListIdle /\ DescIdle

NextStack == StackNext /\ UNCHANGED <<heapVars, lruVars, exprVars, schedVars, listVars, descVars>>

SpecStack == InitStack /\ [][NextStack]_vars

InitTopK == TopKInit /\ HeapIdle /\ LRUIdle /\ ExprIdle /\ SchedIdle /\ StackIdle /\ ListIdle /\ DescIdle

NextTopK == TopK /\ UNCHANGED <<heapVars, lruVars, exprVars, schedVars, stackVars, listVars, descVars>>

SpecTopK == InitTopK /\ [][NextTopK]_vars

InitSearch == SearchInit /\ HeapIdle /\ LRUIdle /\ ExprIdle /\ SchedIdle /\ StackIdle /\ ListIdle /\ DescIdle

NextSearch == Search /\ UNCHANGED <<heapVars, lruVars, exprVars, schedVars, stackVars, listVars, descVars>>

SpecSearch == InitSearch /\ [][NextSearch]_vars

InitHeapify == HeapifyInit /\ HeapIdle /\ LRUIdle /\ ExprIdle /\ SchedIdle /\ StackIdle /\ DescIdle

NextHeapify == HeapifyList /\ UNCHANGED <<heapVars, lruVars, exprVars, schedVars, stackVars, descVars>>

SpecHeapify == InitHeapify /\ [][NextHeapify]_vars

InitDesc ==
    /\ op = NoCall /\ ret = "None" /\ DescInit
    /\ HeapIdle /\ LRUIdle /\ ExprIdle /\ SchedIdle /\ StackIdle /\ ListIdle

NextDesc == DescNext /\ UNCHANGED <<heapVars, lruVars, exprVars, schedVars, stackVars, listVars>>

SpecDesc == InitDesc /\ [][NextDesc]_vars

InitTrie ==
    /\ TrieInit
    /\ HeapIdle /\ LRUIdle /\ ExprIdle /\ SchedIdle /\ StackIdle /\ ListIdle /\ DescIdle

NextTrie ==
    /\ TrieHasPrefix
    /\ UNCHANGED <<heapVars, lruVars, exprVars, schedVars, stackVars, listVars, descVars>>

SpecTrie == InitTrie /\ [][NextTrie]_vars

(***************************************************************************)
(* Claims about IndexedHeap, checked under SpecHeap.  Both fail where a    *)
(* priority tie makes heapq compare an integer item with the string of a   *)
(* removed entry; both hold under SpecHeapStr, where items are strings.    *)
(***************************************************************************)

\* the items successive pop() calls return until one raises
RECURSIVE Drain(_, _)
Drain(h, finder) ==
    LET r == PopResult(h, finder)
    IN IF r.ret \notin Items THEN <<>> ELSE <<r.ret>> \o Drain(r.heap, r.entry_finder)

\* C1: a pop made while at least one item is live (pushed and not since
\* removed or popped) returns a live item whose current priority is the
\* minimum among all live items.
C1_PopReturnsMinLive ==
    [][(op'.name = "pop" /\ DOMAIN live # {})
          => /\ ret' \in DOMAIN live
             /\ \A j \in DOMAIN live : live[ret'] <= live[j]]_vars

\* a pop returned an item while a removed entry and another live item remain
C1_Witness ==
    /\ op.name = "pop"
    /\ ret \in Items
    /\ DOMAIN live # {}
    /\ \E i \in DOMAIN heap : heap[i].item = REMOVED

\* C2: push(item, p) of an item already in the heap succeeds and updates its
\* priority: popping everything afterwards returns every live item exactly
\* once, in the order of the current priorities (p for the item pushed), so
\* the superseded entry is never returned.
C2_PushUpdatesPriority ==
    (op.name = "push" /\ op.old # NoPriority)
        => /\ ret = "None"
           /\ live[op.item] = op.priority
           /\ LET d == Drain(heap, entry_finder)
              IN /\ Len(d) = Cardinality(DOMAIN live)
                 /\ {d[i] : i \in DOMAIN d} = DOMAIN live
                 /\ \A i, j \in DOMAIN d : i < j => live[d[i]] <= live[d[j]]

\* an update that raised the priority above that of another live item
C2_Witness ==
    /\ op.name = "push"
    /\ op.old # NoPriority
    /\ op.old < op.priority
    /\ \E j \in DOMAIN live : j # op.item /\ op.old < live[j] /\ live[j] < op.priority

(***************************************************************************)
(* Claims about LRUCache, checked under SpecLRU.                           *)
(***************************************************************************)

\* C3: put of a new key into a cache that already holds maxsize keys evicts
\* exactly one key, the least recently used one (used = put, or a get that
\* hit); all other keys keep their values.
C3_PutEvictsLRU ==
    [][(op'.name = "put" /\ op'.key \notin CacheKeys(cache) /\ Len(cache) = maxsize)
          => LET held == CacheKeys(cache) \cup {op'.key}
                 evicted == held \ CacheKeys(cache')
             IN /\ Cardinality(evicted) = 1
                /\ \A e \in evicted : \A k \in held : lastUse'[e] <= lastUse'[k]
                /\ \A k \in CacheKeys(cache) \ evicted :
                       CacheValue(cache', k) = CacheValue(cache, k)
                /\ op'.key \notin evicted => CacheValue(cache', op'.key) = op'.value]_vars

\* a put evicted a key that was not the oldest inserted: a later get or
\* put of the first-inserted key had renewed it
C3_Witness ==
    /\ op.name = "put"
    /\ maxsize = 2
    /\ Len(cache) = 2
    /\ \E k \in DOMAIN lastUse \ CacheKeys(cache) :
          \E j \in CacheKeys(cache) \ {op.key} : lastUse[k] < lastUse[j] /\ lastUse[j] > 2

\* C4: get(key) returns the value of the most recent put for that key when
\* the key has not been evicted since that put, and None when the key was
\* never put or has been evicted.
C4_GetReturnsLastPut ==
    op.name = "get"
        => ret = IF op.key \in DOMAIN lastPut THEN lastPut[op.key] ELSE "None"

\* a get hit a key whose value had been overwritten, after another key was evicted
C4_Witness ==
    /\ op.name = "get"
    /\ ret \in Values
    /\ \E k \in DOMAIN lastUse : k \notin DOMAIN lastPut

(***************************************************************************)
(* Claims about evaluate: C5 under SpecExpr, C6 under SpecEval.            *)
(***************************************************************************)

\* the value of nums[1] ops[1] ... nums[n] when every operator is * or /:
\* they associate to the left
RECURSIVE RefTerm(_, _)
RefTerm(nums, ops) ==
    LET n == Len(nums)
    IN IF n = 1 THEN Frac(nums[1], 1)
       ELSE LET l == RefTerm(SubSeq(nums, 1, n - 1), SubSeq(ops, 1, n - 2))
            IN IF l.exc # "none" THEN l ELSE ApplyOp(ops[n - 1], l, Frac(nums[n], 1))

\* the value by standard precedence: split at the last + or -, whose right
\* operand is the product after it and whose left operand is all before it
RECURSIVE RefExpr(_, _)
RefExpr(nums, ops) ==
    LET n == Len(nums)
        additive == {k \in DOMAIN ops : ops[k] \in {"+", "-"}}
    IN IF additive = {} THEN RefTerm(nums, ops)
       ELSE LET k == CHOOSE x \in additive : \A y \in additive : y <= x
                l == RefExpr(SubSeq(nums, 1, k), SubSeq(ops, 1, k - 1))
                r == RefTerm(SubSeq(nums, k + 1, n), SubSeq(ops, k + 1, n - 1))
            IN IF l.exc # "none" THEN l
               ELSE IF r.exc # "none" THEN r
               ELSE ApplyOp(ops[k], l, r)

\* C5: for every well-formed expression of integer literals joined by
\* + - * /, evaluate returns the value obtained with standard precedence
\* (* and / bind tighter than + and -, equal precedence associates to the
\* left), whenever that value exists (no division by zero).
C5_EvaluatePrecedence ==
    (op.name = "evaluate" /\ RefExpr(operands, operators).exc = "none")
        => ret = RefExpr(operands, operators)

\* evaluate("2 + 3 * 5") returned 17
C5_Witness ==
    /\ op.name = "evaluate"
    /\ op.exp = <<"2", " ", "+", " ", "3", " ", "*", " ", "5">>
    /\ ret = Frac(17, 1)

\* what a character is to a reader of expressions
CharClass(c) ==
    CASE c \in {"0", "1", "2", "3", "4", "5", "6", "7", "8", "9"} -> "digit"
      [] c \in Operators -> "operator"
      [] c = " " -> "space"
      [] OTHER -> "other"

\* where a reader is after the text s: "operand" (an operand is due),
\* "number" (inside a number), "after" (past a number and spaces),
\* "bad" (s is no prefix of an expression)
RECURSIVE Reading(_)
Reading(s) ==
    IF s = <<>> THEN "operand"
    ELSE LET before == Reading(SubSeq(s, 1, Len(s) - 1))
             c == CharClass(s[Len(s)])
         IN CASE before = "bad" \/ c = "other" -> "bad"
              [] c = "space" -> IF before = "number" THEN "after" ELSE before
              [] c = "digit" -> IF before = "after" THEN "bad" ELSE "number"
              [] c = "operator" -> IF before = "operand" THEN "bad" ELSE "operand"

\* s is a well-formed arithmetic expression
WellFormed(s) == Reading(s) \in {"number", "after"}

\* C6: for every input that is not a well-formed arithmetic expression
\* (empty, a missing operand, two adjacent numbers with no operator, a
\* character outside digits, + - * / and whitespace) evaluate raises an
\* exception and never returns a value.
C6_RaisesOnMalformed ==
    (op.name = "evaluate" /\ ~WellFormed(op.exp)) => ret.exc # "none"

(***************************************************************************)
(* Claims about run_scheduler, checked under SpecSched.                    *)
(***************************************************************************)

Range(s) == {s[i] : i \in DOMAIN s}

\* what task i contributes to round r of a round-robin: its r-th value, or
\* "done" in the round after its last value, or nothing later on
Turn(tsk, i, r) ==
    IF r <= tsk[i] THEN <<Yields[i][r]>>
    ELSE IF r = tsk[i] + 1 THEN <<"done">>
    ELSE <<>>

\* round r: the turns of tasks i, i + 1, ... in the order of the argument
RECURSIVE Round(_, _, _)
Round(tsk, i, r) ==
    IF i > Len(tsk) THEN <<>> ELSE Turn(tsk, i, r) \o Round(tsk, i + 1, r)

\* rounds r, r + 1, ... up to the one where the last task is found exhausted
RECURSIVE Rounds(_, _)
Rounds(tsk, r) ==
    IF r > MaxYield + 1 THEN <<>> ELSE Round(tsk, 1, r) \o Rounds(tsk, r + 1)

Count(s, x) == Cardinality({i \in DOMAIN s : s[i] = x})

\* C7: run_scheduler takes one value at a time from the task at the front
\* and re-queues it at the back, so results are the round-robin interleaving
\* of the tasks' values in queue order; a task found exhausted gets exactly
\* one "done" at that turn and is never scheduled again; the function
\* returns, and does so once every task is exhausted.
C7_RoundRobin ==
    /\ [](/\ results = SubSeq(Rounds(tasks, 1), 1, Len(results))
          /\ Count(results, "done") = Len(tasks) - Len(q)
          /\ pc = "returned" =>
                /\ ret = Rounds(tasks, 1)
                /\ \A i \in DOMAIN tasks : sent[i] = tasks[i])
    /\ [][/\ \A i \in DOMAIN tasks : i \notin Range(q) => i \notin Range(q')
          /\ (q # <<>> /\ sent[Head(q)] = tasks[Head(q)]) =>
                (results' = Append(results, "done") /\ Head(q) \notin Range(q'))]_vars
    /\ <>(pc = "returned")

\* two tasks of different lengths ran to the end: the shorter one's "done"
\* comes before the longer one's last value
C7_Witness ==
    /\ pc = "returned"
    /\ tasks = <<1, 2>>
    /\ ret = <<"a1", "b1", "done", "b2", "done">>

(***************************************************************************)
(* Claims about the two Stack classes, checked under SpecStack.            *)
(***************************************************************************)

\* C8: on either Stack, pop returns the most recently pushed item that has
\* not yet been popped, and is_empty() is true exactly when every pushed
\* item has been popped.
C8_StackLIFO ==
    /\ [][(op'.name = "pop" /\ pushed[op'.stack] # {})
             => ret' = Newest(pushed[op'.stack]).item]_vars
    /\ [](op.name = "is_empty" => (ret = "True" <=> pushed[op.stack] = {}))

\* "x" then "y" were pushed on the generic Stack and a pop returned "y",
\* leaving "x"
C8_Witness ==
    /\ op.name = "pop"
    /\ op.stack = "typing"
    /\ ret = "y"
    /\ \E n \in 1 .. MaxCalls : pushed["typing"] = {[stamp |-> n, item |-> "x"]}

(***************************************************************************)
(* Claims about top_k, checked under SpecTopK.                             *)
(***************************************************************************)

\* number of elements of s equal to x
Occurrences(s, x) == Cardinality({i \in DOMAIN s : s[i] = x})

\* r holds the n largest elements of s, duplicates counted, in descending
\* order: it is descending, no element occurs in it more often than in s,
\* and what s has beyond r is nowhere larger than an element of r
IsLargest(r, s, n) ==
    /\ Len(r) = n
    /\ \A i, j \in DOMAIN r : i < j => r[i] >= r[j]
    /\ \A x \in 1 .. MaxItem : Occurrences(r, x) <= Occurrences(s, x)
    /\ \A x \in 1 .. MaxItem :
          Occurrences(r, x) < Occurrences(s, x) => \A i \in DOMAIN r : r[i] >= x

\* C9: top_k(items, k) returns the k largest elements of items (all of them
\* when len(items) < k, duplicates counted) in descending order, for every
\* list of integers and every k >= 0.
C9_TopKLargest ==
    op.name = "top_k"
        => /\ ret.exc = "none"
           /\ IsLargest(ret.value, op.items,
                        IF Len(op.items) < op.k THEN Len(op.items) ELSE op.k)

\* the same for k >= 1, where it holds
C9_TopKLargestPositiveK ==
    (op.name = "top_k" /\ op.k >= 1)
        => /\ ret.exc = "none"
           /\ IsLargest(ret.value, op.items,
                        IF Len(op.items) < op.k THEN Len(op.items) ELSE op.k)

(***************************************************************************)
(* Claims about binary_search, checked under SpecSearch.                   *)
(***************************************************************************)

\* the hi of the call, None standing for len(arr)
HiOf(c) == IF c.hiGiven THEN c.hi ELSE Len(c.arr)

\* the indices of arr[lo:hi] that hold x (a slice stops at the end of arr)
Hits(c) == {i \in 0 .. Len(c.arr) - 1 : c.lo <= i /\ i < HiOf(c) /\ At(c.arr, i) = c.x}

\* the leftmost occurrence of x within arr[lo:hi], or -1
Leftmost(c) == IF Hits(c) = {} THEN -1 ELSE Min(Hits(c))

\* C10, as stated: binary_search(arr, x, lo, hi) on a sorted list returns the
\* index of the leftmost occurrence of x within arr[lo:hi], and -1 when x
\* does not occur in that range.
C10_BinarySearchAnyRange ==
    op.name = "binary_search" => ret = [exc |-> "none", value |-> Leftmost(op)]

\* C10, amended: the same for 0 <= lo <= hi <= len(arr), hi defaulting to
\* len(arr).
C10_BinarySearchLeftmost ==
    (op.name = "binary_search" /\ op.lo <= HiOf(op) /\ HiOf(op) <= Len(op.arr))
        => ret = [exc |-> "none", value |-> Leftmost(op)]

\* x occurs twice in arr[lo:hi], not at lo, and the first index was returned
C10_Witness ==
    /\ op.name = "binary_search"
    /\ op.lo <= HiOf(op) /\ HiOf(op) <= Len(op.arr)
    /\ Cardinality(Hits(op)) >= 2
    /\ ret.exc = "none"
    /\ ret.value > op.lo

(***************************************************************************)
(* Claims about heapify_list, checked under SpecHeapify.                   *)
(***************************************************************************)

\* s[i] <= s[2i+1] and s[i] <= s[2i+2] wherever those indices exist
IsMinHeap(s) ==
    \A i \in 0 .. Len(s) - 1 :
        /\ 2 * i + 1 < Len(s) => At(s, i) <= At(s, 2 * i + 1)
        /\ 2 * i + 2 < Len(s) => At(s, i) <= At(s, 2 * i + 2)

\* s and t hold the same elements, duplicates counted
SameElements(s, t) ==
    /\ Len(s) = Len(t)
    /\ \A x \in 1 .. MaxItem : Occurrences(s, x) = Occurrences(t, x)

\* C11: heapify_list(items) converts the list to a heap in place: after the
\* call the argument list items itself satisfies the min-heap property and
\* holds the same elements as before.
C11_HeapifyInPlace ==
    op.name = "heapify_list"
        => IsMinHeap(arg_items) /\ SameElements(arg_items, op.items)

\* what the call does instead: the list returned is a min-heap of the same
\* elements, and the argument list is as it was
C11_ReturnedIsHeap ==
    op.name = "heapify_list"
        => /\ IsMinHeap(ret) /\ SameElements(ret, op.items)
           /\ arg_items = op.items

(***************************************************************************)
(* Claims about the Positive descriptor, checked under SpecDesc.           *)
(***************************************************************************)

\* the step is an assignment of value to the attribute x of instance o, in
\* the constructor or later
Assigns(o, value) ==
    /\ op'.name \in {"__init__", "__set__"}
    /\ op'.obj = o
    /\ op'.value = value

\* C12: an attribute managed by the Positive descriptor only ever holds
\* positive values: every assignment of a value that is not positive, in
\* DescriptorExample's constructor or later, raises ValueError and leaves the
\* stored value unchanged.
C12_OnlyPositive ==
    /\ [](\A o \in Instances : ex_dict[o].has => ex_dict[o].x > 0)
    /\ [][\A o \in Instances, value \in DescValues :
              (Assigns(o, value) /\ value <= 0)
                  => ret' = "ValueError" /\ ex_dict' = ex_dict]_vars

\* the same with "negative" for "not positive", and zero allowed as a value
\* held
C12_NeverNegative ==
    /\ [](\A o \in Instances : ex_dict[o].has => ex_dict[o].x >= 0)
    /\ [][\A o \in Instances, value \in DescValues :
              (Assigns(o, value) /\ value < 0)
                  => ret' = "ValueError" /\ ex_dict' = ex_dict]_vars

(***************************************************************************)
(* Claims about the trie, checked under SpecTrie.                          *)
(***************************************************************************)

\* p is a prefix of (or equal to) w
IsPrefix(p, w) == Len(p) <= Len(w) /\ \A i \in DOMAIN p : p[i] = w[i]

\* p is a prefix of at least one word of ws
PrefixOfSome(p, ws) == \E i \in DOMAIN ws : IsPrefix(p, ws[i])

\* C13, as stated: for every list of words and every string p,
\* trie_has_prefix(create_trie(words), p) is true exactly when p is a prefix
\* of (or equal to) at least one word in words.
C13_HasPrefixOfSomeWord ==
    op.name = "trie_has_prefix"
        => (ret = "True" <=> PrefixOfSome(op.prefix, op.words))

\* C13, amended: it is true exactly when p is empty or p is a prefix of (or
\* equal to) at least one word in words.
C13_HasPrefix ==
    op.name = "trie_has_prefix"
        => (ret = "True" <=> (op.prefix = <<>> \/ PrefixOfSome(op.prefix, op.words)))

\* a non-empty p that is a proper prefix of the second word and no prefix of
\* the first was found
C13_Witness ==
    /\ op.name = "trie_has_prefix"
    /\ Len(op.words) = 2
    /\ op.prefix # <<>>
    /\ ~IsPrefix(op.prefix, op.words[1])
    /\ IsPrefix(op.prefix, op.words[2]) /\ op.prefix # op.words[2]
    /\ ret = "True"

====
